---- MODULE Spec2Model ----
(***************************************************************************)
(* A model of the PokerSim hand-history pipeline                           *)
(* (src/process_poker_data.py): the .phhs parser, the full-refresh load of  *)
(* the three sqlite tables, and the per-player metrics query.               *)
(*                                                                          *)
(* Text is modelled as TLA+ strings and processed character by character    *)
(* (Len, SubSeq and \o on strings), so that strip/split/float/int and the   *)
(* SQL LIKE patterns are computed as the code computes them.                *)
(***************************************************************************)
EXTENDS Integers, Sequences, FiniteSets, TLC

(***************************************************************************)
(* Bounds of the model.                                                     *)
(***************************************************************************)
\* blocks of lines concatenated into the input of the ingestion specification
MaxBlocks == 2
\* runs of the script in one behaviour
MaxRuns == 2
\* hands of the generated input of the metrics specification
MaxHands == 12
\* hands in each file of that input
FileHands == 3
\* answers counted by the trainer between two resets
MaxAttempts == 3

(***************************************************************************)
(* Python string primitives.                                                *)
(***************************************************************************)
Ch(s, i) == SubSeq(s, i, i)

Min(S) == CHOOSE x \in S : \A y \in S : x <= y

Max(S) == CHOOSE x \in S : \A y \in S : x >= y

\* the characters str.strip() removes (those that can occur in a line)
Whitespace == {" ", "\t", "\n", "\r"}

\* the first position from i on, and the last one down from i, whose
\* character is not in cs (Len(s) + 1 and 0 when there is none)
RECURSIVE FirstKept(_, _, _)
FirstKept(s, cs, i) ==
    IF i > Len(s) \/ Ch(s, i) \notin cs THEN i ELSE FirstKept(s, cs, i + 1)

RECURSIVE LastKept(_, _, _)
LastKept(s, cs, i) ==
    IF i < 1 \/ Ch(s, i) \notin cs THEN i ELSE LastKept(s, cs, i - 1)

\* str.strip(chars): drop leading and trailing characters that are in cs
StripSet(s, cs) == SubSeq(s, FirstKept(s, cs, 1), LastKept(s, cs, Len(s)))

\* str.strip()
Strip(s) == StripSet(s, Whitespace)

\* str.startswith(p)
StartsWith(s, p) == Len(s) >= Len(p) /\ SubSeq(s, 1, Len(p)) = p

\* sep occurs in s at position i
At(s, sep, i) == SubSeq(s, i, i + Len(sep) - 1) = sep

\* the first position from i on where sep occurs in s, 0 when none
RECURSIVE FindFrom(_, _, _)
FindFrom(s, sep, i) ==
    IF i + Len(sep) - 1 > Len(s) THEN 0
    ELSE IF At(s, sep, i) THEN i
    ELSE FindFrom(s, sep, i + 1)

\* str.find(sep) + 1: the first position where sep occurs in s, 0 when none
Find(s, sep) == FindFrom(s, sep, 1)

\* sep in s
Contains(s, sep) == Find(s, sep) # 0

\* str.split(sep): always at least one element
RECURSIVE Split(_, _)
Split(s, sep) ==
    LET i == Find(s, sep)
    IN  IF i = 0 THEN <<s>>
        ELSE <<SubSeq(s, 1, i - 1)>> \o Split(SubSeq(s, i + Len(sep), Len(s)), sep)

\* str.split(sep, 1): at most one cut
Split1(s, sep) ==
    LET i == Find(s, sep)
    IN  IF i = 0 THEN <<s>>
        ELSE <<SubSeq(s, 1, i - 1), SubSeq(s, i + Len(sep), Len(s))>>

DigitOf == [c \in {"0", "1", "2", "3", "4", "5", "6", "7", "8", "9"} |->
              CHOOSE d \in 0..9 : ToString(d) = c]

IsDigit(c) == c \in DOMAIN DigitOf

DigitVal(c) == DigitOf[c]

AllDigits(s) == \A i \in 1..Len(s) : IsDigit(Ch(s, i))

\* the value of a string of digits ("" is 0)
RECURSIVE NatVal(_)
NatVal(s) ==
    IF s = "" THEN 0
    ELSE 10 * NatVal(SubSeq(s, 1, Len(s) - 1)) + DigitVal(Ch(s, Len(s)))

\* a numeral without its sign, and its sign
Unsigned(s) == IF StartsWith(s, "-") \/ StartsWith(s, "+") THEN SubSeq(s, 2, Len(s)) ELSE s

Sign(s) == IF StartsWith(s, "-") THEN -1 ELSE 1

\* int(s) succeeds: surrounding blanks, an optional sign, one or more digits
IsIntLit(s) ==
    LET u == Unsigned(Strip(s)) IN Len(u) > 0 /\ AllDigits(u)

\* int(s)
IntVal(s) == Sign(Strip(s)) * NatVal(Unsigned(Strip(s)))

\* float(s) succeeds on the decimal literals [sign] digits [. digits]
\* (the input never holds exponents, infinities or NaN)
IsFloatLit(s) ==
    LET u == Unsigned(Strip(s))
        p == Split1(u, ".")
    IN  /\ \A k \in 1..Len(p) : AllDigits(p[k])
        /\ \E k \in 1..Len(p) : Len(p[k]) > 0

\* float(s), in hundredths
FloatVal(s) ==
    LET u == Unsigned(Strip(s))
        p == Split1(u, ".")
        f == IF Len(p) = 2 THEN SubSeq(p[2] \o "00", 1, 2) ELSE "00"
    IN  Sign(Strip(s)) * (100 * NatVal(p[1]) + NatVal(f))

(***************************************************************************)
(* The parser: parse_poker_file.  A dict is a function from its keys; a     *)
(* raised exception is a result with ok = FALSE and the exception's name.   *)
(***************************************************************************)
EmptyDict == <<>>

\* d[k] = v
Put(d, k, v) == (k :> v) @@ d

\* bool(d)
Truthy(d) == DOMAIN d # {}

ScalarKeys == {"variant", "venue", "table", "day", "month", "year", "hand"}

Brackets == {"[", "]"}

\* list(map(float, xs)): defined when every element is a float literal
FloatList(xs) == [k \in 1..Len(xs) |-> FloatVal(xs[k])]

AllFloats(xs) == \A k \in 1..Len(xs) : IsFloatLit(xs[k])

\* lines 79 and 81: float() raises ValueError on the first element it cannot read
ParseFloats(st, key, items) ==
    IF AllFloats(items)
    THEN [st EXCEPT !.current_hand = Put(@, key, FloatList(items))]
    ELSE [st EXCEPT !.ok = FALSE, !.err = "ValueError"]

\* lines 74-83: the field key = value is stored in the current hand
ParseField(st, key, value) ==
    IF key \in ScalarKeys
    THEN [st EXCEPT !.current_hand = Put(@, key, value)]
    ELSE IF key \in {"players", "actions"}
    THEN [st EXCEPT !.current_hand = Put(@, key, Split(StripSet(value, Brackets), ", "))]
    ELSE IF key \in {"starting_stacks", "winnings"}
    THEN ParseFloats(st, key, Split(StripSet(value, Brackets), ", "))
    ELSE st

\* lines 70-72: key, value = line.split("=", 1), both stripped
ParseParts(st, parts) ==
    IF Len(parts) < 2
    THEN [st EXCEPT !.ok = FALSE, !.err = "ValueError"]
    ELSE ParseField(st, Strip(parts[1]), Strip(parts[2]))

\* lines 62-83, on the stripped line
ParseStripped(st, line) ==
    IF line = "" THEN st
    ELSE IF StartsWith(line, "[")
    THEN [st EXCEPT !.hand_data = IF Truthy(st.current_hand)
                                  THEN Append(@, st.current_hand) ELSE @,
                    !.current_hand = EmptyDict]
    ELSE ParseParts(st, Split1(line, "="))

\* the body of the loop over the lines of the file, lines 61-83
ParseLine(st, raw) == ParseStripped(st, Strip(raw))

\* the loop over the lines, from line i on; it stops at the first exception
RECURSIVE ParseFrom(_, _, _)
ParseFrom(lines, i, st) ==
    IF i > Len(lines) \/ ~st.ok THEN st
    ELSE ParseFrom(lines, i + 1, ParseLine(st, lines[i]))

\* the append of the last hand, lines 85-86
ParseEndMissing(st) == st

ParseEnd(st) ==
    IF st.ok /\ Truthy(st.current_hand)
    THEN [st EXCEPT !.hand_data = Append(@, st.current_hand)]
    ELSE st

\* parse_poker_file(file_path), on the lines of the file
parse_poker_file(lines) ==
    ParseEnd(ParseFrom(lines, 1,
        [ok |-> TRUE, err |-> "", hand_data |-> <<>>, current_hand |-> EmptyDict]))

(***************************************************************************)
(* The store: three tables, each the sequence of its rows in insertion      *)
(* order.  Column affinities convert the bound Python values.               *)
(***************************************************************************)
EmptyStore == [hands |-> <<>>, players |-> <<>>, actions |-> <<>>]

\* INTEGER affinity: text that is an integer literal is stored as the integer
IntAffinity(s) == IF IsIntLit(s) THEN IntVal(s) ELSE s

\* DELETE FROM hands / players / actions
DeleteHands(store) == [store EXCEPT !.hands = <<>>]

DeletePlayers(store) == [store EXCEPT !.players = <<>>]

DeleteActionsMissing(store) == store

DeleteActions(store) == [store EXCEPT !.actions = <<>>]

\* the keys the INSERT of line 96-97 reads
HandKeys == {"hand", "variant", "venue", "table", "day", "month", "year"}

Raise(txn, name) == [ok |-> FALSE, err |-> name, txn |-> txn]

Fine(txn) == [ok |-> TRUE, err |-> "", txn |-> txn]

\* lines 96-97: INSERT OR IGNORE INTO hands; hand_id is the INTEGER PRIMARY KEY
InsertHand(txn, hand) ==
    IF ~(HandKeys \subseteq DOMAIN hand) THEN Raise(txn, "KeyError")
    ELSE IF ~IsIntLit(hand["hand"]) THEN Raise(txn, "IntegrityError")
    ELSE IF \E k \in 1..Len(txn.hands) : txn.hands[k].hand_id = IntVal(hand["hand"])
    THEN Fine(txn)
    ELSE Fine([txn EXCEPT !.hands = Append(@,
                [hand_id |-> IntVal(hand["hand"]),
                 variant |-> hand["variant"],
                 venue |-> hand["venue"],
                 table_name |-> hand["table"],
                 day |-> IntAffinity(hand["day"]),
                 month |-> IntAffinity(hand["month"]),
                 year |-> IntAffinity(hand["year"])])])

\* line 100: hand.get("winnings", [0] * len(hand["players"]))
WinningsList(hand) ==
    IF "winnings" \in DOMAIN hand THEN hand["winnings"]
    ELSE [k \in 1..Len(hand["players"]) |-> 0]

\* the seat of the i-th player (i counted from 1), line 105: enumerate's index + 1
SeatZeroBased(i) == i - 1

Seat(i) == (i - 1) + 1

\* the row of the i-th player, line 105
PlayerRow(hand, i) ==
    [hand_id |-> IntAffinity(hand["hand"]),
     player_id |-> StripSet(hand["players"][i], {"'"}),
     seat |-> Seat(i),
     starting_stack |-> hand["starting_stacks"][i],
     winnings |-> WinningsList(hand)[i]]

\* lines 100-105: the players loop.  The rows before the first index that
\* raises are inserted (the players table has no key, so OR IGNORE ignores
\* nothing).
InsertPlayers(txn, hand) ==
    IF "players" \notin DOMAIN hand THEN Raise(txn, "KeyError")
    ELSE
    LET n == Len(hand["players"])
        hasStacks == "starting_stacks" \in DOMAIN hand
        bad == {i \in 1..n : \/ ~hasStacks
                              \/ i > Len(hand["starting_stacks"])
                              \/ i > Len(WinningsList(hand))}
        upTo == IF bad = {} THEN n ELSE Min(bad) - 1
        rows == [i \in 1..upTo |-> PlayerRow(hand, i)]
        after == [txn EXCEPT !.players = @ \o rows]
    IN  IF bad = {} THEN Fine(after)
        ELSE IF ~hasStacks THEN Raise(after, "KeyError")
        ELSE Raise(after, "IndexError")

\* lines 108-109: the actions loop
InsertActions(txn, hand) ==
    IF "actions" \notin DOMAIN hand THEN Raise(txn, "KeyError")
    ELSE IF ~IsIntLit(hand["hand"]) THEN Raise(txn, "ValueError")
    ELSE Fine([txn EXCEPT !.actions = @ \o
                [k \in 1..Len(hand["actions"]) |->
                    [hand_id |-> IntVal(hand["hand"]), action |-> hand["actions"][k]]]])

\* lines 94-109: the body of the loop over the hands of a file
InsertRecord(txn, hand) ==
    LET a == InsertHand(txn, hand)
        b == IF a.ok THEN InsertPlayers(a.txn, hand) ELSE a
    IN  IF b.ok THEN InsertActions(b.txn, hand) ELSE b

\* what is durable after a statement run by cursor.execute: the connection
\* (line 11, default isolation level) opens a transaction before the first
\* INSERT and only commit() makes its rows durable
DurableAutocommit(committed, working) == working

Durable(committed, working) == committed

(***************************************************************************)
(* The metrics query, lines 123-162, and the derived columns, lines         *)
(* 171-176.  A joined row is a pair <<i, j>>: row i of players with row j   *)
(* of actions, j = 0 standing for the NULL row a LEFT JOIN supplies.        *)
(***************************************************************************)
UpperCase == "ABCDEFGHIJKLMNOPQRSTUVWXYZ"

LowerCase == "abcdefghijklmnopqrstuvwxyz"

UpperLetters == {Ch(UpperCase, k) : k \in 1..Len(UpperCase)}

\* LIKE compares ASCII letters without regard to case
Fold(c) ==
    IF c \in UpperLetters THEN Ch(LowerCase, Find(UpperCase, c)) ELSE c

RECURSIVE Lower(_)
Lower(s) == IF s = "" THEN "" ELSE Fold(Ch(s, 1)) \o Lower(SubSeq(s, 2, Len(s)))

\* action LIKE '%<infix>%', on the case-folded action
Like(folded, infix) == Contains(folded, Lower(infix))

\* lines 128-131, 135-137, 141-144, 147-149: the CASE conditions
IsVpip(a) ==
    \/ Like(a, " cc") \/ Like(a, " limp") \/ Like(a, " cbr") \/ Like(a, " all-in")

IsPfr(a) ==
    \/ Like(a, " all-in") \/ Like(a, " raise") \/ Like(a, " bet")

IsAggressive(a) ==
    \/ Like(a, " cbr") \/ Like(a, " bet") \/ Like(a, " raise") \/ Like(a, " all-in")

IsPassive(a) ==
    \/ Like(a, " f") \/ Like(a, " limp") \/ Like(a, " cc")

\* the CASE conditions of one action
Classify(action) ==
    CHOOSE c \in {[vpip |-> IsVpip(a), pfr |-> IsPfr(a),
                   aggressive |-> IsAggressive(a), passive |-> IsPassive(a)] :
                        a \in {Lower(action)}} : TRUE

\* the CASE conditions of each row of actions
RECURSIVE ActionFlags(_)
ActionFlags(actions) ==
    IF actions = <<>> THEN <<>>
    ELSE <<Classify(Head(actions).action)>> \o ActionFlags(Tail(actions))

\* line 160: HAVING COUNT(DISTINCT p.hand_id) > 10
MinHands == 10

HavingAtLeast(n) == n >= MinHands

Having(n) == n > MinHands

\* lines 156-157: FROM players p LEFT JOIN actions a ON p.hand_id = a.hand_id
LeftJoin(store) ==
    LET P == 1..Len(store.players)
        A == 1..Len(store.actions)
        on(i, j) == store.players[i].hand_id = store.actions[j].hand_id
    IN  {r \in P \X A : on(r[1], r[2])} \cup
        {<<i, 0>> : i \in {k \in P : \A j \in A : ~on(k, j)}}

\* line 158: WHERE a.action IS NOT NULL (no stored action is NULL)
Where(store) == {r \in LeftJoin(store) : r[2] # 0}

\* COUNT(DISTINCT CASE WHEN ... THEN p.hand_id END) over the rows of a group
CountDistinctHands(store, rows) ==
    Cardinality({store.players[r[1]].hand_id : r \in rows})

\* lines 128-132: vpip_hands, over the rows G of a group
VpipHandsNotDistinct(store, G, flags) == Cardinality({r \in G : flags[r[2]].vpip})

VpipHands(store, G, flags) == CountDistinctHands(store, {r \in G : flags[r[2]].vpip})

\* a / b as a fraction; a zero denominator is NULL in SQL and NaN in pandas
Ratio(a, b) == [num |-> a, den |-> b]

\* lines 124-154: the columns of the group of one player_id, over the joined
\* rows W and the CASE conditions of the actions
GroupRow(store, W, flags, pid) ==
    LET G == {r \in W : store.players[r[1]].player_id = pid}
        total == CountDistinctHands(store, G)
    IN  [player_id |-> pid,
         total_hands |-> total,
         vpip_hands |-> VpipHands(store, G, flags),
         pfr_hands |-> CountDistinctHands(store, {r \in G : flags[r[2]].pfr}),
         aggressive_actions |-> Cardinality({r \in G : flags[r[2]].aggressive}),
         passive_actions |-> Cardinality({r \in G : flags[r[2]].passive}),
         showdown_win_percent |->
            Ratio(100 * CountDistinctHands(store,
                            {r \in G : store.players[r[1]].winnings > 0}), total)]

\* lines 123-160: the rows of the query, before ORDER BY
QueryRows(store) ==
    LET groups ==
            UNION {{GroupRow(store, W, flags, pid) :
                        pid \in {store.players[r[1]].player_id : r \in W}} :
                    W \in {Where(store)}, flags \in {ActionFlags(store.actions)}}
    IN  {g \in groups : Having(g.total_hands)}

\* line 161: ORDER BY vpip_hands DESC; rows of equal vpip_hands come in any order
Orderings(rows) ==
    {q \in [1..Cardinality(rows) -> rows] :
        /\ \A a, b \in DOMAIN q : a # b => q[a] # q[b]
        /\ \A a, b \in DOMAIN q : a < b => q[a].vpip_hands >= q[b].vpip_hands}

\* lines 171-176: the derived columns, the dropped columns
FeatureRow(g) ==
    [player_id |-> g.player_id,
     aggressive_actions |-> g.aggressive_actions,
     passive_actions |-> g.passive_actions,
     showdown_win_percent |-> g.showdown_win_percent,
     vpip_percent |-> Ratio(100 * g.vpip_hands, g.total_hands),
     total_actions |-> g.passive_actions + g.aggressive_actions,
     pfr_percent |-> Ratio(100 * g.passive_actions,
                           g.passive_actions + g.aggressive_actions)]

IsNaN(x) == x.den = 0

\* line 176: dropna() drops the rows with an undefined value
RECURSIVE DropNa(_)
DropNa(q) ==
    IF q = <<>> THEN <<>>
    ELSE LET f == Head(q)
         IN  (IF IsNaN(f.showdown_win_percent) \/ IsNaN(f.vpip_percent)
                    \/ IsNaN(f.pfr_percent) THEN <<>> ELSE <<f>>)
             \o DropNa(Tail(q))

Features(q) == DropNa([k \in DOMAIN q |-> FeatureRow(q[k])])

(***************************************************************************)
(* Input files.  A file is the sequence of its lines; the input of a run    *)
(* is the sequence of files glob returns.                                   *)
(***************************************************************************)
Meta == <<"variant = NT", "venue = Pluribus", "table = t1",
          "day = 1", "month = 2", "year = 2020">>

\* a complete hand, with winnings
BlockGood ==
    <<"[1]", "hand = 1">> \o Meta \o
    <<"players = ['P1', 'P2']", "starting_stacks = [100.0, 100.0]",
      "winnings = [50.0, -50.0]", "actions = ['P1 cbr 10', 'P2 f']">>

\* a complete hand without winnings, with a blank line and an unknown key
BlockNoWinnings ==
    <<"[2]", "", "hand = 2">> \o Meta \o
    <<"seats = 6", "players = ['P2', 'P3', 'P1']",
      "starting_stacks = [80.0, 120.5, 7]",
      "actions = ['P2 cc', 'P3 cbr 5', 'P2 f']">>

\* a second hand with the identifier of BlockGood
BlockDuplicate ==
    <<"[1]", "hand = 1">> \o Meta \o
    <<"players = ['P3']", "starting_stacks = [10.0]",
      "winnings = [0.0]", "actions = ['P3 f']">>

\* starting_stacks shorter than players
BlockShortStacks ==
    <<"[3]", "hand = 3">> \o Meta \o
    <<"players = ['P1', 'P2']", "starting_stacks = [100.0]",
      "winnings = [1.0, -1.0]", "actions = ['P1 f']">>

\* starting_stacks longer than players
BlockLongStacks ==
    <<"[4]", "hand = 4">> \o Meta \o
    <<"players = ['P1']", "starting_stacks = [100.0, 200.0]",
      "actions = ['P1 cc']">>

\* a delimiter with no field after it
BlockEmpty == <<"[5]", "  ", "note = none">>

\* the fields of a hand with no delimiter before them
BlockHeadless ==
    <<"hand = 6">> \o Meta \o
    <<"players = ['P2']", "starting_stacks = [5.0]", "actions = ['P2 bet 1']">>

\* a field line without '='
BlockBadLine == <<"[7]", "hand 7">>

Blocks == {BlockGood, BlockNoWinnings, BlockDuplicate, BlockShortStacks,
           BlockLongStacks, BlockEmpty, BlockHeadless, BlockBadLine}

RECURSIVE Concat(_)
Concat(ss) == IF ss = <<>> THEN <<>> ELSE Head(ss) \o Concat(Tail(ss))

BlockSeqs == UNION {[1..n -> Blocks] : n \in 0..MaxBlocks}

\* the inputs of the ingestion specification: no file, or up to MaxBlocks
\* blocks in one file or cut into two files
Inputs ==
    {<<>>} \cup
    {<<Concat(bs)>> : bs \in BlockSeqs \ {<<>>}} \cup
    UNION {{<<Concat(SubSeq(bs, 1, c)), Concat(SubSeq(bs, c + 1, Len(bs)))>> :
                c \in 1..(Len(bs) - 1)} : bs \in BlockSeqs}

(***************************************************************************)
(* The inputs of the metrics specification: MinHands + 1 to MaxHands hands  *)
(* in files of FileHands hands, the first k hands of one shape and the      *)
(* others of another, so that players sit in 10, 11 and more hands.         *)
(***************************************************************************)
\* the scenario of the specification: a bet-or-raise and a fold
ShapeRaiseFold ==
    <<"players = ['P1', 'P2']", "starting_stacks = [100.0, 100.0]",
      "winnings = [50.0, -50.0]", "actions = ['P1 cbr 10', 'P2 f']">>

\* no winnings; two voluntary actions in one hand
ShapeCallRaise ==
    <<"players = ['P2', 'P3']", "starting_stacks = [80.0, 120.5]",
      "actions = ['P2 cc', 'P3 cbr 5', 'P2 f']">>

\* only a deal: no action of any class
ShapeDealOnly ==
    <<"players = ['P1', 'P3']", "starting_stacks = [10.0, 10.0]",
      "winnings = [0.0, 0.0]", "actions = ['d dh p1 AsKs']">>

\* one player alone
ShapeAlone ==
    <<"players = ['P1']", "starting_stacks = [100.0]",
      "winnings = [10.0]", "actions = ['P1 all-in', 'P1 limp']">>

\* three players, upper case in a token
ShapeThree ==
    <<"players = ['P1', 'P2', 'P3']", "starting_stacks = [1.0, 2.0, 3.0]",
      "winnings = [-1.0, 0.0, 1.0]", "actions = ['P3 bet 5', 'P1 raise 10', 'P2 F']">>

\* starting_stacks shorter than players
ShapeShort ==
    <<"players = ['P1', 'P2']", "starting_stacks = [100.0]",
      "actions = ['P1 f']">>

Shapes == {ShapeRaiseFold, ShapeCallRaise, ShapeDealOnly, ShapeAlone, ShapeThree,
           ShapeShort}

\* the lines of the hand with identifier id
HandLines(id, shape) ==
    <<"[" \o ToString(id) \o "]", "hand = " \o ToString(id)>> \o Meta \o shape

\* the hand of rank h among n: the first k hands have shape s1 and the others
\* shape s2; with dup the last hand repeats the identifier of the first
HandAt(h, n, k, s1, s2, dup) ==
    HandLines(IF dup /\ h = n THEN 1 ELSE h, IF h <= k THEN s1 ELSE s2)

\* the n hands in files of FileHands hands (the last file may hold fewer)
HandsFiles(n, k, s1, s2, dup) ==
    [f \in 1..((n + FileHands - 1) \div FileHands) |->
        Concat([j \in 1..Min({FileHands, n - (f - 1) * FileHands}) |->
                    HandAt((f - 1) * FileHands + j, n, k, s1, s2, dup)])]

MetricsInputs ==
    {HandsFiles(n, k, s1, s2, dup) :
        n \in (MinHands + 1)..MaxHands, k \in {0, MinHands, MinHands + 1},
        s1 \in Shapes, s2 \in Shapes, dup \in BOOLEAN}

\* rows left in the store by an earlier run over other files
OldStore ==
    [hands |-> <<[hand_id |-> 1, variant |-> "NT", venue |-> "Old", table_name |-> "t0",
                  day |-> 9, month |-> 9, year |-> 2019]>>,
     players |-> <<[hand_id |-> 1, player_id |-> "P9", seat |-> 1,
                    starting_stack |-> 100, winnings |-> 0]>>,
     actions |-> <<[hand_id |-> 1, action |-> "'P9 f'"]>>]

InitialStores == {EmptyStore, OldStore}

(***************************************************************************)
(* The trainer, src/pokersim.py: a PokerGame window is the record of its    *)
(* fields and of the texts and pictures its labels show.                    *)
(***************************************************************************)
\* lines 16-17
SUITS == <<"hearts", "diamonds", "clubs", "spades">>

RANKS == <<"2", "3", "4", "5", "6", "7", "8", "9", "10", "jack", "queen", "king", "ace">>

\* lines 22-57
POKER_RANGES ==
    [UTG |-> {"AA", "KK", "QQ", "JJ", "TT",
              "AKs", "AQs", "AJs", "KQs", "ATs",
              "AKo", "AQo"},
     MP  |-> {"AA", "KK", "QQ", "JJ", "TT", "99",
              "AKs", "AQs", "AJs", "ATs", "KQs", "KJs", "QJs",
              "AKo", "AQo", "AJo", "KQo"},
     CO  |-> {"AA", "KK", "QQ", "JJ", "TT", "99", "88", "77",
              "AKs", "AQs", "AJs", "ATs", "KQs", "KJs", "QJs", "JTs",
              "A5s", "A4s", "A3s", "A2s",
              "AKo", "AQo", "AJo", "KQo", "QJo", "JTo"},
     BTN |-> {"AA", "KK", "QQ", "JJ", "TT", "99", "88", "77", "66",
              "AKs", "AQs", "AJs", "ATs", "A9s", "KQs", "KJs", "KTs", "QJs", "QTs",
              "JTs", "T9s", "98s",
              "A5s", "A4s", "A3s", "A2s",
              "AKo", "AQo", "AJo", "ATo", "KQo", "KJo", "QJo", "JTo"},
     SB  |-> {"AA", "KK", "QQ", "JJ", "TT", "99", "88", "77", "66", "55",
              "AKs", "AQs", "AJs", "ATs", "A9s", "A8s", "KQs", "KJs", "KTs", "QJs",
              "QTs", "JTs", "T9s", "98s", "87s",
              "A5s", "A4s", "A3s", "A2s",
              "AKo", "AQo", "AJo", "ATo", "KQo", "KJo", "QJo", "JTo"},
     BB  |-> {"AA", "KK", "QQ", "JJ", "TT", "99", "88", "77", "66", "55", "44", "33", "22",
              "AKs", "AQs", "AJs", "ATs", "A9s", "A8s", "A7s", "A6s", "A5s", "A4s",
              "A3s", "A2s",
              "KQs", "KJs", "KTs", "K9s", "QJs", "QTs", "Q9s", "JTs", "J9s", "T9s",
              "T8s", "98s", "97s", "87s", "76s", "65s", "54s",
              "AKo", "AQo", "AJo", "ATo", "A9o", "KQo", "KJo", "KTo", "QJo", "JTo", "T9o"}]

\* lines 90-93
RANK_ORDER ==
    ("2" :> 2) @@ ("3" :> 3) @@ ("4" :> 4) @@ ("5" :> 5) @@ ("6" :> 6) @@
    ("7" :> 7) @@ ("8" :> 8) @@ ("9" :> 9) @@ ("T" :> 10) @@ ("J" :> 11) @@
    ("Q" :> 12) @@ ("K" :> 13) @@ ("A" :> 14)

\* lines 131-134
rank_map ==
    ("2" :> "2") @@ ("3" :> "3") @@ ("4" :> "4") @@ ("5" :> "5") @@ ("6" :> "6") @@
    ("7" :> "7") @@ ("8" :> "8") @@ ("9" :> "9") @@ ("10" :> "T") @@
    ("jack" :> "J") @@ ("queen" :> "Q") @@ ("king" :> "K") @@ ("ace" :> "A")

\* str.join
RECURSIVE Join(_, _)
Join(parts, sep) ==
    IF Len(parts) = 1 THEN parts[1]
    ELSE parts[1] \o sep \o Join(Tail(parts), sep)

\* str.replace(old, new)
Replace(s, old, new) == Join(Split(s, old), new)

\* str.upper() of one character
Upper(c) ==
    IF Contains(LowerCase, c) THEN Ch(UpperCase, Find(LowerCase, c)) ELSE c

\* lines 129-140: 'jack_of_hearts.png' to 'JH'
format_card_name(card_filename) ==
    LET parts == Split(Replace(card_filename, ".png", ""), "_of_")
        rank == rank_map[parts[1]]
        suit == Upper(Ch(parts[2], 1))
    IN  rank \o suit

\* lines 96-112: two cards to hand notation, the higher rank first
combine_hand(card1, card2) ==
    LET rank1 == SubSeq(card1, 1, Len(card1) - 1)
        suit1 == Ch(card1, Len(card1))
        rank2 == SubSeq(card2, 1, Len(card2) - 1)
        suit2 == Ch(card2, Len(card2))
        high_rank == IF RANK_ORDER[rank1] > RANK_ORDER[rank2] THEN rank1 ELSE rank2
        low_rank == IF RANK_ORDER[rank1] > RANK_ORDER[rank2] THEN rank2 ELSE rank1
    IN  IF high_rank = low_rank THEN high_rank \o low_rank
        ELSE IF suit1 = suit2 THEN high_rank \o low_rank \o "s"
        ELSE high_rank \o low_rank \o "o"

\* lines 115-125: sorted(..., reverse=True) is stable, equal ranks keep their order
normalize_hand(hand) ==
    IF Ch(hand, Len(hand)) \in {"s", "o"}
    THEN LET r1 == Ch(hand, 1)
             r2 == Ch(hand, 2)
             suit == Ch(hand, Len(hand))
         IN  IF RANK_ORDER[r1] >= RANK_ORDER[r2] THEN r1 \o r2 \o suit
             ELSE r2 \o r1 \o suit
    ELSE hand

\* lines 143-152
poker_ai_decision(position, player_hand) ==
    IF position \notin DOMAIN POKER_RANGES THEN "Fold"
    ELSE IF normalize_hand(player_hand) \in POKER_RANGES[position] THEN "Raise"
    ELSE "Fold"

\* line 219: the deck of file names, suit by suit
Deck ==
    {RANKS[r] \o "_of_" \o SUITS[u] \o ".png" : r \in 1..Len(RANKS), u \in 1..Len(SUITS)}

\* f"{x:.1f}%" of x = (correct / total) * 100, as its number of tenths: the
\* quotient is rounded to the nearest tenth (no tie occurs for total < 16)
Tenths(correct, total) == (2000 * correct + total) \div (2 * total)

Percent(correct, total) ==
    LET t == Tenths(correct, total)
    IN  ToString(t \div 10) \o "." \o ToString(t % 10) \o "%"

\* lines 85-94 and 154-215: the window after construction
NewGame ==
    [correct_decision |-> "None",
     total_attempts |-> 0,
     correct_attempts |-> 0,
     card_labels |-> <<>>,
     info_label |-> "AI Decision: Waiting...",
     accuracy_label |-> "Accuracy: 0.0%"]

\* the cards random.sample draws from: three ranks in two suits of the deck
Drawn ==
    {c \in Deck : \E r \in {"ace", "10", "2"}, u \in {"hearts", "spades"} :
                    c = r \o "_of_" \o u \o ".png"}

\* line 220: two different cards, in the order drawn
Samples == {p \in Drawn \X Drawn : p[1] # p[2]}

\* line 230: list(POKER_RANGES.keys())
Positions == DOMAIN POKER_RANGES

\* lines 223-233 and 246: the hand, the decision and the text of every sample
\* and position, computed once
Dealt ==
    [d \in Samples \X Positions |->
        LET card1 == format_card_name(d[1][1])
            card2 == format_card_name(d[1][2])
            formatted_hand == combine_hand(card1, card2)
        IN  [correct_decision |-> poker_ai_decision(d[2], formatted_hand),
             text |-> "Position: " \o d[2] \o " | Hand: " \o formatted_hand
                        \o " | AI Suggests: ???"]] @@ <<>>

\* lines 217-248: deal_cards, for the sample and the position random draws
\* and for whether the two card pictures exist on disk
deal_cards(g, player_cards, position, exist) ==
    LET d == Dealt[<<player_cards, position>>]
        decided == [g EXCEPT !.correct_decision = d.correct_decision]
    IN  IF exist
        THEN [decided EXCEPT !.card_labels = player_cards, !.info_label = d.text]
        ELSE decided

\* lines 256-275: player_action; None is the only falsy correct_decision.
\* The texts of info_label are written without their leading pictograph.
player_action(g, action) ==
    IF g.correct_decision # "None"
    THEN LET correct == action = g.correct_decision
             total == g.total_attempts + 1
             right == g.correct_attempts + (IF correct THEN 1 ELSE 0)
         IN  [g EXCEPT
                !.total_attempts = total,
                !.correct_attempts = right,
                !.info_label =
                    IF correct
                    THEN "Correct! AI also suggested: " \o g.correct_decision
                    ELSE "Wrong! AI suggested: " \o g.correct_decision,
                !.accuracy_label = "Accuracy: " \o Percent(right, total)]
    ELSE [g EXCEPT !.info_label = "No hand dealt yet!"]

\* lines 277-281: reset_stats
reset_stats(g) ==
    [g EXCEPT !.total_attempts = 0, !.correct_attempts = 0]

(***************************************************************************)
(* The script as a state machine.                                           *)
(***************************************************************************)
VARIABLES
    files,   \* phhs_files: the input, fixed for the behaviour
    db,      \* the committed content of poker.db
    txn,     \* the content the connection sees (db plus its open transaction)
    pc,      \* the position of the script
    run,     \* the number of the current run of the script
    fi,      \* the index in files of the file being loaded
    hands,   \* the records parse_poker_file returned for that file
    hi,      \* the index in hands of the next record to insert
    err,     \* the exception that ended the run, "" when none
    df,      \* the result of the metrics query, <<>> before it
    start,   \* the committed content when the current run started, and
             \* whether the run before it completed
    game     \* the PokerGame window of the trainer

vars == <<files, db, txn, pc, run, fi, hands, hi, err, df, start, game>>

NoFrame == [query |-> <<>>, features |-> <<>>]

InitWith(input, store) ==
    /\ files = input
    /\ db = store
    /\ txn = store
    /\ pc = "delete_hands"
    /\ run = 1
    /\ fi = 1
    /\ hands = <<>>
    /\ hi = 1
    /\ err = ""
    /\ df = NoFrame
    /\ start = [db |-> store, completed |-> FALSE]
    /\ game = NewGame

Init == \E input \in Inputs, store \in InitialStores : InitWith(input, store)

\* lines 43-47: executescript runs each DELETE outside any transaction, so
\* each one is durable as soon as it has run
ClearHands ==
    /\ pc = "delete_hands"
    /\ db' = DeleteHands(db)
    /\ txn' = db'
    /\ pc' = "delete_players"
    /\ UNCHANGED <<files, run, fi, hands, hi, err, df, start, game>>

ClearPlayers ==
    /\ pc = "delete_players"
    /\ db' = DeletePlayers(db)
    /\ txn' = db'
    /\ pc' = "delete_actions"
    /\ UNCHANGED <<files, run, fi, hands, hi, err, df, start, game>>

ClearActions ==
    /\ pc = "delete_actions"
    /\ db' = DeleteActions(db)
    /\ txn' = db'
    /\ pc' = "file"
    /\ UNCHANGED <<files, run, fi, hands, hi, err, df, start, game>>

\* lines 91-92: the next file is parsed; an exception of the parser is not caught
ParseFile ==
    /\ pc = "file"
    /\ fi <= Len(files)
    /\ \E r \in {parse_poker_file(files[fi])} :
           IF r.ok
           THEN /\ hands' = r.hand_data
                /\ hi' = 1
                /\ pc' = "hand"
                /\ err' = err
           ELSE /\ pc' = "raised"
                /\ err' = r.err
                /\ UNCHANGED <<hands, hi>>
    /\ UNCHANGED <<files, db, txn, run, fi, df, start, game>>

\* lines 94-109: one hand of the file is inserted; an exception is not caught
\* and leaves in the transaction the rows inserted before it
ProcessHand ==
    /\ pc = "hand"
    /\ hi <= Len(hands)
    /\ \E r \in {InsertRecord(txn, hands[hi])} :
           /\ txn' = r.txn
           /\ db' = Durable(db, r.txn)
           /\ IF r.ok
              THEN /\ hi' = hi + 1
                   /\ UNCHANGED <<pc, err>>
              ELSE /\ pc' = "raised"
                   /\ err' = r.err
                   /\ hi' = hi
    /\ UNCHANGED <<files, run, fi, hands, df, start, game>>

\* line 94, loop exit: the hands of the file are exhausted
EndFile ==
    /\ pc = "hand"
    /\ hi > Len(hands)
    /\ fi' = fi + 1
    /\ pc' = "file"
    /\ UNCHANGED <<files, db, txn, run, hands, hi, err, df, start, game>>

\* lines 113-114: the single commit, after the last file
Commit ==
    /\ pc = "file"
    /\ fi > Len(files)
    /\ db' = txn
    /\ pc' = "done"
    /\ UNCHANGED <<files, txn, run, fi, hands, hi, err, df, start, game>>

\* an uncaught exception ends the process; the open transaction is rolled back
Crash ==
    /\ pc = "raised"
    /\ txn' = db
    /\ pc' = "aborted"
    /\ UNCHANGED <<files, db, run, fi, hands, hi, err, df, start, game>>

\* lines 118-176: the metrics query over the committed store and the
\* derived feature rows
Query ==
    /\ pc = "done"
    /\ \E q \in Orderings(QueryRows(db)) :
            df' = [query |-> q, features |-> Features(q)]
    /\ pc' = "queried"
    /\ UNCHANGED <<files, db, txn, run, fi, hands, hi, err, start, game>>

\* the script is run again over the same files
Rerun ==
    /\ pc \in {"queried", "aborted"}
    /\ run < MaxRuns
    /\ run' = run + 1
    /\ pc' = "delete_hands"
    /\ fi' = 1
    /\ hands' = <<>>
    /\ hi' = 1
    /\ err' = ""
    /\ df' = NoFrame
    /\ start' = [db |-> db, completed |-> pc # "aborted"]
    /\ UNCHANGED <<files, db, txn, game>>

Next ==
    \/ ClearHands
    \/ ClearPlayers
    \/ ClearActions
    \/ ParseFile
    \/ ProcessHand
    \/ EndFile
    \/ Commit
    \/ Crash
    \/ Query
    \/ Rerun

Spec == Init /\ [][Next]_vars

\* the script over the inputs of the metrics specification
InitMetrics == \E input \in MetricsInputs : InitWith(input, EmptyStore)

SpecMetrics == InitMetrics /\ [][Next]_vars

(***************************************************************************)
(* The trainer as a state machine: one action per button of the window.     *)
(***************************************************************************)
scriptVars == <<files, db, txn, pc, run, fi, hands, hi, err, df, start>>

\* line 186: the Deal Cards button
DealCards ==
    /\ \E player_cards \in Samples, position \in Positions, exist \in BOOLEAN :
            game' = deal_cards(game, player_cards, position, exist)
    /\ UNCHANGED scriptVars

\* lines 212-214: the Fold, Call and Raise buttons
PlayerAction ==
    /\ game.correct_decision = "None" \/ game.total_attempts < MaxAttempts
    /\ \E action \in {"Fold", "Call", "Raise"} :
            game' = player_action(game, action)
    /\ UNCHANGED scriptVars

\* line 215: the Reset button
ResetStats ==
    /\ game' = reset_stats(game)
    /\ UNCHANGED scriptVars

NextTrainer ==
    \/ DealCards
    \/ PlayerAction
    \/ ResetStats

\* the window opened, the script not run
InitTrainer == InitWith(<<>>, EmptyStore)

SpecTrainer == InitTrainer /\ [][NextTrainer]_vars

(***************************************************************************)
(* Definitions used to state the claims.                                    *)
(***************************************************************************)
\* the records of every input file that parses, in input order
AllRecords ==
    Concat([k \in 1..Len(files) |->
                CHOOSE d \in {IF r.ok THEN r.hand_data ELSE <<>> :
                                r \in {parse_poker_file(files[k])}} : TRUE])

\* the indexes of the rows of a table that carry a hand identifier
RowsOf(table, id) == {k \in 1..Len(table) : table[k].hand_id = id}

RECURSIVE SumLen(_, _)
SumLen(recs, key) ==
    IF recs = <<>> THEN 0 ELSE Len(Head(recs)[key]) + SumLen(Tail(recs), key)

\* two dicts with the same keys and the same values
DictEq(a, b) == DOMAIN a = DOMAIN b /\ \A k \in DOMAIN a : a[k] = b[k]

\* a record the normalizer's contract accepts
WellFormed(r) ==
    /\ (HandKeys \cup {"players", "starting_stacks", "actions"}) \subseteq DOMAIN r
    /\ IsIntLit(r["hand"])
    /\ Len(r["starting_stacks"]) = Len(r["players"])
    /\ "winnings" \in DOMAIN r => Len(r["winnings"]) = Len(r["players"])

\* a record whose starting_stacks and players differ in length
StacksMismatch(r) ==
    /\ {"hand", "players", "starting_stacks"} \subseteq DOMAIN r
    /\ IsIntLit(r["hand"])
    /\ Len(r["starting_stacks"]) # Len(r["players"])

RunEnded == pc \in {"done", "queried", "aborted"}

----------------------------------------------------------------------------
\* C1: running the ingestion twice over the same files leaves the three
\* tables after the second run exactly as they were after the first,
\* whatever the store held before the first run.
C1_FullRefreshIdempotent ==
    (pc = "done" /\ run > 1 /\ start.completed) => db = start.db

C1_Witness ==
    /\ pc = "done" /\ run > 1 /\ start.completed
    /\ Len(db.hands) >= 2 /\ Len(db.actions) >= 3

\* C2 (as claimed): after a completed run, every hand of the hands table has
\* as many players rows as the players list of a source record of that hand.
C2_SeatRowsEqualPlayers ==
    pc = "done" =>
      \A recs \in {AllRecords} :
        \A k \in 1..Len(db.hands) :
            \E j \in 1..Len(recs) :
                /\ IntVal(recs[j]["hand"]) = db.hands[k].hand_id
                /\ Cardinality(RowsOf(db.players, db.hands[k].hand_id))
                        = Len(recs[j]["players"])

\* C3 (as claimed): a record whose starting_stacks and players differ in
\* length is rejected with an error and leaves no players row in the store.
C3_MismatchRejected ==
    RunEnded =>
      \A recs \in {AllRecords} :
        \A j \in 1..Len(recs) :
            StacksMismatch(recs[j]) =>
                /\ pc = "aborted"
                /\ RowsOf(db.players, IntVal(recs[j]["hand"])) = {}

\* C4 (as claimed): when a record fails on a shape mismatch (the IndexError of
\* line 105), every well-formed record of the input is in the store when the
\* run ends.
C4_OtherRecordsLoaded ==
    (RunEnded /\ err = "IndexError") =>
      \A recs \in {AllRecords} :
        \A j \in 1..Len(recs) :
            WellFormed(recs[j]) =>
                /\ RowsOf(db.hands, IntVal(recs[j]["hand"])) # {}
                /\ Cardinality(RowsOf(db.players, IntVal(recs[j]["hand"])))
                        >= Len(recs[j]["players"])

\* C5: the committed store never holds the rows of only part of the input:
\* while the tables are cleared each holds its rows of before the run or
\* none; from then until the commit, and after an abort, the committed store
\* is empty; after the commit it holds the rows of every record of every file.
C5_AllOrNothing ==
    /\ pc \in {"delete_hands", "delete_players", "delete_actions"} =>
            \A t \in {"hands", "players", "actions"} : db[t] \in {<<>>, start.db[t]}
    /\ pc \in {"file", "hand", "raised", "aborted"} => db = EmptyStore
    /\ pc \in {"done", "queried"} =>
            \A recs \in {AllRecords} :
                /\ Len(db.players) = SumLen(recs, "players")
                /\ Len(db.actions) = SumLen(recs, "actions")
                /\ {db.hands[k].hand_id : k \in 1..Len(db.hands)}
                        = {IntVal(recs[j]["hand"]) : j \in 1..Len(recs)}

\* a run that raised in its second file, with rows of the first file in the
\* open transaction
C5_Witness ==
    pc = "raised" /\ fi = 2 /\ Len(txn.players) >= 2 /\ db = EmptyStore

\* the distinct hands of the players table in which a player sits
HandsOf(pid) ==
    {db.players[k].hand_id : k \in {j \in 1..Len(db.players) : db.players[j].player_id = pid}}

\* the players of the players table
Seated == {db.players[k].player_id : k \in 1..Len(db.players)}

\* the players the query returned
Returned == {df.query[k].player_id : k \in 1..Len(df.query)}

\* C6: the query returns a player if and only if the player sits in strictly
\* more than 10 distinct hands of the loaded store (11 hands: returned; 10
\* hands: not returned).
C6_Qualification ==
    pc = "queried" =>
        Returned = {pid \in Seated : Cardinality(HandsOf(pid)) > MinHands}

\* a player of exactly 11 hands is returned and one of exactly 10 is not
C6_Witness ==
    /\ pc = "queried"
    /\ \E pid \in Returned : Cardinality(HandsOf(pid)) = MinHands + 1
    /\ \E pid \in Seated \ Returned : Cardinality(HandsOf(pid)) = MinHands

\* the player an action token names: its first word, quotes removed
Actor(action) == Split(StripSet(action, {"'"}), " ")[1]

\* the stored actions a player performed
OwnActions(pid) == {j \in 1..Len(db.actions) : Actor(db.actions[j].action) = pid}

\* C7 (as claimed): for every returned player, aggressive_actions and
\* passive_actions count only the action tokens that player performed, and
\* pfr_percent is passive / (aggressive + passive) * 100 over those counts.
C7_OwnActionsOnly ==
    pc = "queried" =>
        \A flags \in {ActionFlags(db.actions)} :
            /\ \A k \in 1..Len(df.query) :
                    LET g == df.query[k]
                        own == OwnActions(g.player_id)
                    IN  /\ g.aggressive_actions =
                                Cardinality({j \in own : flags[j].aggressive})
                        /\ g.passive_actions =
                                Cardinality({j \in own : flags[j].passive})
            /\ \A k \in 1..Len(df.features) :
                    LET f == df.features[k]
                        own == OwnActions(f.player_id)
                        passive == Cardinality({j \in own : flags[j].passive})
                        aggressive == Cardinality({j \in own : flags[j].aggressive})
                    IN  f.pfr_percent = Ratio(100 * passive, passive + aggressive)

\* C8: for every returned player whose denominators are not zero,
\* 0 <= vpip_hands <= total_hands and 0 <= passive_actions <= total_actions,
\* and the vpip_percent and pfr_percent of every feature row lie in [0, 100].
C8_PercentRange ==
    pc = "queried" =>
        /\ \A k \in 1..Len(df.query) :
                LET g == df.query[k]
                    total_actions == g.passive_actions + g.aggressive_actions
                IN  (g.total_hands # 0 /\ total_actions # 0) =>
                        /\ 0 <= g.vpip_hands /\ g.vpip_hands <= g.total_hands
                        /\ 0 <= g.passive_actions /\ g.passive_actions <= total_actions
        /\ \A k \in 1..Len(df.features) :
                LET f == df.features[k]
                IN  /\ f.vpip_percent.den > 0 /\ f.pfr_percent.den > 0
                    /\ 0 <= f.vpip_percent.num
                    /\ f.vpip_percent.num <= 100 * f.vpip_percent.den
                    /\ 0 <= f.pfr_percent.num
                    /\ f.pfr_percent.num <= 100 * f.pfr_percent.den

\* a feature row whose two percentages lie strictly between 0 and 100, and a
\* returned player with more classified actions than hands
C8_Witness ==
    /\ pc = "queried"
    /\ \E k \in 1..Len(df.features) :
            LET f == df.features[k]
            IN  /\ 0 < f.vpip_percent.num
                /\ f.vpip_percent.num < 100 * f.vpip_percent.den
                /\ 0 < f.pfr_percent.num
                /\ f.pfr_percent.num < 100 * f.pfr_percent.den
    /\ \E k \in 1..Len(df.query) :
            df.query[k].aggressive_actions + df.query[k].passive_actions
                > df.query[k].total_hands

\* the dict of the recognized field of one line (empty for any other line)
FieldOf(line) ==
    ParseLine([ok |-> TRUE, err |-> "", hand_data |-> <<>>, current_hand |-> EmptyDict],
              line).current_hand

\* what each line of a file is: a delimiter or not, and its recognized field
RECURSIVE Lines(_)
Lines(lines) ==
    IF lines = <<>> THEN <<>>
    ELSE <<[delimiter |-> StartsWith(Strip(Head(lines)), "["),
            field |-> FieldOf(Head(lines))]>> \o Lines(Tail(lines))

\* the positions of the delimiter lines
Delimiters(ls) == {i \in 1..Len(ls) : ls[i].delimiter}

\* the segment that starts after position s (0, or a delimiter) ends before
\* the next delimiter, or with the file
SegmentEnd(ls, s) == Min({i \in Delimiters(ls) : i > s} \cup {Len(ls) + 1})

\* the recognized fields of that segment, a repeated key keeping its last value
SegmentRecord(ls, s) ==
    LET inside == {i \in (s + 1)..(SegmentEnd(ls, s) - 1) : Truthy(ls[i].field)}
        keyAt(i) == CHOOSE k \in DOMAIN ls[i].field : TRUE
        last(k) == Max({i \in inside : keyAt(i) = k})
    IN  [k \in {keyAt(i) : i \in inside} |-> ls[last(k)].field[k]]

\* the k-th smallest element of a set of numbers
Kth(S, k) == CHOOSE x \in S : Cardinality({y \in S : y < x}) = k - 1

\* the starts of the segments that hold a recognized field
FullSegments(ls) ==
    {s \in {0} \cup Delimiters(ls) : Truthy(SegmentRecord(ls, s))}

\* the state parse_poker_file has just returned in
Parsed == pc = "hand" /\ hi = 1

\* C9 (amended): parse_poker_file returns, in file order, one record for each
\* segment (the lines before the first delimiter, and the lines from each
\* delimiter to the next or to the end of the file) that holds at least one
\* recognized field, with exactly the recognized fields of that segment.
C9_Segmentation ==
    Parsed =>
        \A ls \in {Lines(files[fi])} :
            /\ Len(hands) = Cardinality(FullSegments(ls))
            /\ \A k \in 1..Len(hands) :
                    DictEq(hands[k], SegmentRecord(ls, Kth(FullSegments(ls), k)))

\* a file with a record, and more delimiters than records
C9_Witness ==
    /\ Parsed /\ Len(hands) >= 1
    /\ Cardinality(Delimiters(Lines(files[fi]))) > Len(hands)

\* C9 (as claimed): one record per delimiter, each with the recognized fields
\* between its delimiter and the next.
C9_OneRecordPerDelimiter ==
    Parsed =>
        \A ls \in {Lines(files[fi])} :
            /\ Len(hands) = Cardinality(Delimiters(ls))
            /\ \A k \in 1..Len(hands) :
                    DictEq(hands[k], SegmentRecord(ls, Kth(Delimiters(ls), k)))

\* C10: a record without winnings that is inserted adds exactly len(players)
\* players rows, the i-th with seat i, the i-th player and winnings 0.
C10_ZeroWinnings ==
    [][(/\ pc = "hand" /\ hi <= Len(hands) /\ pc' = "hand" /\ hi' = hi + 1
        /\ "winnings" \notin DOMAIN hands[hi])
       => txn'.players = txn.players \o
            [i \in 1..Len(hands[hi]["players"]) |->
                [hand_id |-> IntVal(hands[hi]["hand"]),
                 player_id |-> StripSet(hands[hi]["players"][i], {"'"}),
                 seat |-> i,
                 starting_stack |-> hands[hi]["starting_stacks"][i],
                 winnings |-> 0]]]_vars

\* a hand of three players without winnings has been inserted
C10_Witness ==
    /\ pc = "hand" /\ hi > 1
    /\ "winnings" \notin DOMAIN hands[hi - 1]
    /\ Len(hands[hi - 1]["players"]) = 3
    /\ Len(txn.players) >= 3

\* C11 (as claimed): reset_stats sets total_attempts and correct_attempts to
\* 0 and updates the display, so that right after it accuracy_label shows
\* the accuracy of the reset counters, 0.0%.
C11_ResetUpdatesDisplay ==
    [][ResetStats =>
            /\ game'.total_attempts = 0
            /\ game'.correct_attempts = 0
            /\ game'.accuracy_label = "Accuracy: 0.0%"]_vars

====
